---- MODULE Spec2Model ----
(***************************************************************************)
(* Transaction coordination layer of joshjon/kit (package tx):            *)
(* the generic executor Do, the pgx and SQLite repository txers, the      *)
(* SQLTxWrapper adapter and the timeout classifiers.                      *)
(*                                                                         *)
(* Durations are counted in microseconds (Go counts nanoseconds); every   *)
(* duration the model uses is a whole number of microseconds.             *)
(***************************************************************************)
EXTENDS Integers, Sequences, FiniteSets, TLC

\* ------------------------------------------------------------------ bounds
MaxDepth == 3      \* deepest chain of BeginTxFunc calls (outermost = 1)
MaxNested == 2     \* nested BeginTxFunc calls made by work functions in one chain
NumProcs == 2      \* goroutines calling BeginTxFunc on the same root coordinator

\* --------------------------------------------------------------- durations
Millisecond == 1000
Second == 1000 * Millisecond
DefaultTimeout == 10 * Second

\* Go integer division truncates toward zero.
TruncDiv(a, b) == IF a >= 0 THEN a \div b ELSE -((-a) \div b)

Backends == {"pgx", "sqlite"}

\* Timeout values a caller may put in the config.
CfgTimeouts == {0, -1 * Millisecond, 500, 50 * Millisecond, 11 * Second}

\* ------------------------------------------------------------------ errors
Nil == [k |-> "nil"]
Plain(id) == [k |-> "plain", id |-> id]
PgError(code) == [k |-> "pg", code |-> code]
SqliteError(code) == [k |-> "sqlite", code |-> code]
DeadlineExceeded == [k |-> "ctxerr", id |-> "DeadlineExceeded"]
Canceled == [k |-> "ctxerr", id |-> "Canceled"]

IdleInTransactionSessionTimeout == "25P03"

\* fmt.Errorf: the message is the format with every operand rendered into it,
\* and the operands of the %w verbs are what Unwrap returns.
Errorf(format, operands, wrapped) ==
    [k |-> "wrap", format |-> format, operands |-> operands, unwrap |-> wrapped]

\* Mutant: the tag does not keep the error it was put on.
TagDropsCause(cause) == [k |-> "tag", tag |-> "ErrTagTransactionTimeout", cause |-> Nil]

\* errtag.Tag[ErrTagTransactionTimeout](cause)
Tag(cause) == [k |-> "tag", tag |-> "ErrTagTransactionTimeout", cause |-> cause]

\* The errors reachable from err through Unwrap, in the pre-order errors.Is
\* and errors.As visit them.
RECURSIVE Chain(_)
Chain(err) ==
    IF err.k = "nil" THEN <<>>
    ELSE IF err.k = "tag" THEN <<err>> \o Chain(err.cause)
    ELSE IF err.k = "wrap" THEN
        <<err>> \o (IF Len(err.unwrap) = 0 THEN <<>>
                    ELSE IF Len(err.unwrap) = 1 THEN Chain(err.unwrap[1])
                    ELSE Chain(err.unwrap[1]) \o Chain(err.unwrap[2]))
    ELSE <<err>>

ErrorsIs(err, target) == \E i \in 1..Len(Chain(err)) : Chain(err)[i] = target

\* errors.As: the first error of the chain with the wanted dynamic type.
ErrorsAs(err, kind) ==
    LET c == Chain(err)
        hits == {i \in 1..Len(c) : c[i].k = kind}
    IN  IF hits = {} THEN Nil
        ELSE c[CHOOSE i \in hits : \A j \in hits : i <= j]

HasTag(err) == ErrorsAs(err, "tag") # Nil

\* Mutant: the classifier returns every error unchanged.
TagPGXTimeoutErrNever(err) == err

TagPGXTimeoutErr(err) ==
    LET pgErr == ErrorsAs(err, "pg")
    IN  IF pgErr # Nil /\ (pgErr.code = IdleInTransactionSessionTimeout \/ pgErr.code = "25P04")
        THEN Tag(err)
        ELSE err

TagSQLiteTimeoutErr(err) ==
    IF err = Nil THEN Nil
    ELSE IF ErrorsIs(err, DeadlineExceeded) THEN Tag(err)
    ELSE LET se == ErrorsAs(err, "sqlite")
         IN  IF se # Nil /\ se.code \in {"SQLITE_BUSY", "SQLITE_LOCKED"}
             THEN Tag(err)
             ELSE err

\* ----------------------------------------------------- handles, coordinators
NoTx == [type |-> "nil", id |-> 0]                 \* nil tx.Tx
PgxTx(i) == [type |-> "pgx.Tx", id |-> i]
SqlTx(i) == [type |-> "*sql.Tx", id |-> i]
NewSQLTxWrapper(sqlTx) == [type |-> "*tx.SQLTxWrapper", id |-> sqlTx.id]
GetSQLTx(w) == SqlTx(w.id)
OtherTx(i) == [type |-> "other", id |-> i]          \* some other tx.Tx implementation

NativeType(b) == IF b = "pgx" THEN "pgx.Tx" ELSE "*tx.SQLTxWrapper"
HandleOf(b, i) == IF b = "pgx" THEN PgxTx(i) ELSE NewSQLTxWrapper(SqlTx(i))

\* Mutant: the constructor keeps the configured Timeout as it is.
NewRepositoryTxerNoDefault(b, cfgTimeout) ==
    [backend |-> b, Timeout |-> cfgTimeout, txn |-> NoTx]

\* NewPGXRepositoryTxer / NewSQLiteRepositoryTxer
NewRepositoryTxer(b, cfgTimeout) ==
    [backend |-> b,
     Timeout |-> IF cfgTimeout = 0 \/ cfgTimeout > 10 * Second
                 THEN DefaultTimeout ELSE cfgTimeout,
     txn |-> NoTx]

InTx(r) == r.txn # NoTx

\* A repository value: its identity, the native transaction its queries are
\* bound to and the txer stored on it.
Repo(id, bound, txer) == [id |-> id, bound |-> bound, txer |-> txer]

\* A binder that follows the WithTxFunc contract.
WithTxFunc(repo, cpy, native) == Repo(repo.id, native, cpy)

\* Outcome of a call: a normal return or a panic.
Returned(v) == [kind |-> "return", val |-> v]
Panicked(v) == [kind |-> "panic", val |-> v]
StringPanic(s) == [k |-> "string", text |-> s]

\* Mutant: the handle's type is checked before the ambient transaction.
WithTxTypeFirst(r, repo, txn, binderPanics) ==
    IF txn.type # NativeType(r.backend)
    THEN [out |-> Panicked(StringPanic("expected native tx")), binder |-> 0, cpy |-> r, self |-> r]
    ELSE IF r.txn # NoTx
    THEN [out |-> Returned(repo), binder |-> 0, cpy |-> r, self |-> r]
    ELSE LET cpy == [r EXCEPT !.txn = txn]
             native == IF r.backend = "pgx" THEN txn ELSE GetSQLTx(txn)
         IN  [out |-> IF binderPanics THEN Panicked(StringPanic("binder"))
                      ELSE Returned(WithTxFunc(repo, cpy, native)),
              binder |-> 1, cpy |-> cpy, self |-> r]

\* Mutant: a handle of the wrong type is ignored instead of raising a panic.
WithTxNoPanic(r, repo, txn, binderPanics) ==
    IF r.txn # NoTx \/ txn.type # NativeType(r.backend)
    THEN [out |-> Returned(repo), binder |-> 0, cpy |-> r, self |-> r]
    ELSE LET cpy == [r EXCEPT !.txn = txn]
             native == IF r.backend = "pgx" THEN txn ELSE GetSQLTx(txn)
         IN  [out |-> IF binderPanics THEN Panicked(StringPanic("binder"))
                      ELSE Returned(WithTxFunc(repo, cpy, native)),
              binder |-> 1, cpy |-> cpy, self |-> r]

\* Mutant: the handle is stored on the receiver instead of on a copy.
WithTxInPlace(r, repo, txn, binderPanics) ==
    IF r.txn # NoTx
    THEN [out |-> Returned(repo), binder |-> 0, cpy |-> r, self |-> r]
    ELSE IF txn.type # NativeType(r.backend)
    THEN [out |-> Panicked(StringPanic("expected native tx")), binder |-> 0, cpy |-> r, self |-> r]
    ELSE LET cpy == [r EXCEPT !.txn = txn]
             native == IF r.backend = "pgx" THEN txn ELSE GetSQLTx(txn)
         IN  [out |-> IF binderPanics THEN Panicked(StringPanic("binder"))
                      ELSE Returned(WithTxFunc(repo, cpy, native)),
              binder |-> 1, cpy |-> cpy, self |-> cpy]

\* WithTx(repo, tx) on coordinator r; binderPanics says whether the caller's
\* binder panics when invoked.  binder counts the binder invocations.  cpy is
\* the coordinator handed to the binder, self the receiver after the call.
WithTx(r, repo, txn, binderPanics) ==
    IF r.txn # NoTx
    THEN [out |-> Returned(repo), binder |-> 0, cpy |-> r, self |-> r]
    ELSE IF txn.type # NativeType(r.backend)
    THEN [out |-> Panicked(StringPanic(IF r.backend = "pgx"
                                       THEN "tx.PGXRepositoryTxer.WithTx: expected pgx.Tx"
                                       ELSE "tx.SQLiteRepositoryTxer.WithTx: expected *tx.SQLTxWrapper")),
          binder |-> 0, cpy |-> r, self |-> r]
    ELSE LET cpy == [r EXCEPT !.txn = txn]
             native == IF r.backend = "pgx" THEN txn ELSE GetSQLTx(txn)
         IN  [out |-> IF binderPanics THEN Panicked(StringPanic("binder"))
                      ELSE Returned(WithTxFunc(repo, cpy, native)),
              binder |-> 1, cpy |-> cpy, self |-> r]

\* ---------------------------------------------------------------- contexts
Background == [k |-> "ctx", deadlines |-> <<>>, cancelled |-> FALSE]
WithTimeout(ctx, d) == [ctx EXCEPT !.deadlines = Append(@, d)]

\* ------------------------------------------------------------------- inputs
TimeoutErr(b) == IF b = "pgx" THEN PgError(IdleInTransactionSessionTimeout)
                 ELSE SqliteError("SQLITE_BUSY")
\* What a database call of the given step may fail with.
DbErrs(b, step) == {Plain(step), TimeoutErr(b)}
\* What a work function may return, besides nil.
WorkErrs(b) ==
    DbErrs(b, "work")
      \cup {Errorf("query: %w", <<TimeoutErr(b)>>, <<TimeoutErr(b)>>)}
      \cup (IF b = "pgx" THEN {PgError("25P04")} ELSE {})
\* What a work function may panic with: a string or an error value.
PanicVals == {StringPanic("boom"), Plain("fault")}
\* Handles a caller may hand to WithTx.
HandleArgs == {NoTx, PgxTx(9), NewSQLTxWrapper(SqlTx(9)), OtherTx(9)}
\* What Commit may return.  The embedded adapter returns the native commit's
\* result, or the context's error when the context is done first; the pgx
\* driver reports a backend error or an error wrapping the context's error.
CommitResults(b) ==
    {Nil} \cup DbErrs(b, "commit")
          \cup (IF b = "sqlite" THEN {DeadlineExceeded, Canceled}
                ELSE {PgError("25P04"),
                      Errorf("timeout: %w", <<DeadlineExceeded>>, <<DeadlineExceeded>>)})

TxIds == 1..(MaxNested + 1)
NoResult == [kind |-> "none", val |-> Nil]
NoCall == [called |-> FALSE]
NoCls == [in |-> Nil, pgx |-> NoResult, sqlite |-> NoResult]
Procs == 1..NumProcs
\* A goroutine that has not called BeginTxFunc yet.
NoGor == [pc |-> "idle", mode |-> "none", tx |-> NoTx, fnTx |-> NoTx, fnBound |-> NoTx,
          fnTxn |-> NoTx, err |-> Nil, acted |-> <<>>, ret |-> NoResult]
\* Nothing kept yet.
NoKept == [pc |-> "idle", repoTx |-> Nil, state |-> "none", val |-> Nil,
           invoked |-> <<>>, ret |-> NoResult]
\* No Do call yet.
NoDo == [pc |-> "idle", val |-> Nil, calls |-> <<>>, ret |-> NoResult]
\* No Commit call on the adapter yet.
NoRace == [pc |-> "idle", native |-> "idle", nativeRes |-> Nil, done |-> <<>>,
           ctxDone |-> FALSE, ctxErr |-> Nil, first |-> "none", ready |-> {},
           rollbacks |-> 0, rbRes |-> Nil, ret |-> NoResult]

\* ------------------------------------------------------------------- state
VARIABLES
    cfg,        \* the configuration handed to the constructor
    root,       \* the root coordinator built by the constructor
    stack,      \* the chain of BeginTxFunc / Do calls in progress, outermost first
    opened,     \* number of native transactions opened so far
    commits,    \* commits[i]: Commit calls made on handle i
    rollbacks,  \* rollbacks[i]: Rollback calls made on handle i
    nested,     \* nested BeginTxFunc calls made so far by work functions
    log,        \* calls made on the collaborators and on the caller's functions
    result,     \* outcome of the outermost call, once it has ended
    wtx         \* outcome of the WithTx call made in the last step, if any

\* State of the classifier calls (specification SpecClassify).
VARIABLES
    cls         \* the error handed to a classifier and what each classifier returned

\* State of the goroutines sharing one root coordinator (specification
\* SpecConc).
VARIABLES
    gor,        \* gor[p]: the locals of goroutine p's BeginTxFunc call
    pool        \* number of native transactions the connection source has begun

\* State of one SQLTxWrapper.Commit call (specification SpecRace).
VARIABLES
    race        \* the calling goroutine, the committing goroutine, the channel, the context

\* State of one Do call on a handle whose Commit and Rollback may panic
\* (specification SpecDo).
VARIABLES
    dox         \* where the call is, the calls made on the handle, the outcome

\* State of a caller that keeps the transaction-bound repository its work
\* function was given and uses it after BeginTxFunc returned (specification
\* SpecKept).
VARIABLES
    kept        \* the kept repository, the transaction's state, fn invocations

clsVars == <<cls>>
concVars == <<gor, pool>>
raceVars == <<race>>
doVars == <<dox>>
keptVars == <<kept>>

\* Variables the transaction call chain leaves alone.
auxVars == <<clsVars, concVars, raceVars, doVars, keptVars>>

chainVars == <<cfg, root, stack, opened, commits, rollbacks, nested, log, result, wtx>>
vars == <<chainVars, auxVars>>

Repo0 == Repo("repo", NoTx, root)

D == Len(stack)
Top == stack[D]
Pop == SubSeq(stack, 1, D - 1)
SetTop(f) == [stack EXCEPT ![D] = f]
Idle == stack = <<>> /\ result = NoResult

\* The state after construction, no call made yet.
ChainInit ==
    /\ \E b \in Backends, t \in CfgTimeouts : cfg = [backend |-> b, Timeout |-> t]
    /\ root = NewRepositoryTxer(cfg.backend, cfg.Timeout)
    /\ stack = <<>>
    /\ opened = 0
    /\ commits = [i \in TxIds |-> 0]
    /\ rollbacks = [i \in TxIds |-> 0]
    /\ nested = 0
    /\ log = <<>>
    /\ result = NoResult
    /\ wtx = NoCall

ClsIdle == cls = NoCls
ConcIdle == gor = [p \in Procs |-> NoGor] /\ pool = 0
RaceIdle == race = NoRace
DoIdle == dox = NoDo
KeptIdle == kept = NoKept

Init == ChainInit /\ ClsIdle /\ ConcIdle /\ RaceIdle /\ DoIdle /\ KeptIdle

\* ---------------------------------------------------------- BeginTxFunc entry
\* Mutant: the ambient transaction is never recognised.
IsAmbientNever(r) == FALSE

\* r.txn != nil
IsAmbient(r) == r.txn # NoTx

\* The sqlite txer runs a root call under a deadline when Timeout > 0.
RootCtx(r, ctx) ==
    IF r.backend = "sqlite" /\ r.Timeout > 0 THEN WithTimeout(ctx, r.Timeout) ELSE ctx

\* Mutant: a nested call reclassifies the inner function's error.
AmbientReturnTagged(fnResult) == IF fnResult = Nil THEN Nil ELSE Tag(fnResult)

\* return fn(ctx, r.txn, repo)
AmbientReturn(fnResult) == fnResult

\* The frame of BeginTxFunc(ctx, repo, fn) called on coordinator r.
Enter(r, ctx, repo) ==
    IF IsAmbient(r)
    THEN [mode |-> "ambient", coord |-> r, cctx |-> ctx, ctx |-> ctx, repo |-> repo,
          pc |-> "fn", tx |-> r.txn, repoTx |-> repo, val |-> Nil, step |-> 0]
    ELSE [mode |-> "root", coord |-> r, cctx |-> ctx, ctx |-> RootCtx(r, ctx), repo |-> repo,
          pc |-> "begin", tx |-> NoTx, repoTx |-> repo, val |-> Nil, step |-> 0]

FnEvent(f, d) ==
    [op |-> "fn", depth |-> d, mode |-> f.mode, ctx |-> f.ctx, tx |-> f.tx, repo |-> f.repoTx]

EnterLog(f, d) == IF f.mode = "ambient" THEN <<FnEvent(f, d)>> ELSE <<>>

\* BeginTxFunc(ctx, repo, fn) is called on coordinator r at depth d.
CallEvent(d, r, ctx, repo) ==
    [op |-> "call", depth |-> d, entry |-> "BeginTxFunc", coord |-> r, ctx |-> ctx, repo |-> repo]

\* A caller calls BeginTxFunc on the root coordinator.
CallBeginTxFunc ==
    /\ Idle
    /\ LET f == Enter(root, Background, Repo0)
       IN  /\ stack' = <<f>>
           /\ log' = log \o <<CallEvent(1, root, Background, Repo0)>> \o EnterLog(f, 1)
    /\ wtx' = NoCall
    /\ UNCHANGED <<cfg, root, opened, commits, rollbacks, nested, result>>
    /\ UNCHANGED auxVars

\* A caller calls Do directly on a handle of a transaction it opened itself.
CallDo ==
    /\ Idle
    /\ opened' = 1
    /\ LET f == [mode |-> "do", coord |-> root, cctx |-> Background, ctx |-> Background,
                 repo |-> Repo0, pc |-> "fn", tx |-> HandleOf(root.backend, 1),
                 repoTx |-> Repo0, val |-> Nil, step |-> 0]
       IN  /\ stack' = <<f>>
           /\ log' = log \o <<[op |-> "call", depth |-> 1, entry |-> "Do", coord |-> root,
                               ctx |-> Background, repo |-> Repo0],
                              [op |-> "Do", depth |-> 1, tx |-> f.tx], FnEvent(f, 1)>>
    /\ wtx' = NoCall
    /\ UNCHANGED <<cfg, root, commits, rollbacks, nested, result>>
    /\ UNCHANGED auxVars

\* A caller calls WithTx on the root coordinator.
RootWithTx ==
    /\ Idle
    /\ \E h \in HandleArgs, bp \in BOOLEAN :
         LET w == WithTx(root, Repo0, h, bp)
         IN  /\ wtx' = [called |-> TRUE, coord |-> root, repo |-> Repo0, handle |-> h,
                        res |-> w]
             /\ root' = w.self
    /\ UNCHANGED <<cfg, stack, opened, commits, rollbacks, nested, log, result>>
    /\ UNCHANGED auxVars

\* ------------------------------------------------------------ leaving a call
\* The end of a call; cancel tells whether a deferred cancel() of a derived
\* context ran.
RetEvent(f, d, out) ==
    [op |-> "ret", depth |-> d, mode |-> f.mode, out |-> out, cancel |-> f.ctx # f.cctx]

\* The top call returns v to its caller.
Return(v, events) ==
    /\ stack' = Pop
    /\ result' = IF D = 1 THEN Returned(v) ELSE result
    /\ log' = log \o events \o <<RetEvent(Top, D, Returned(v))>>

FnOut(d, out) == [op |-> "fnout", depth |-> d, out |-> out]

\* A panic with value v reaches the calls of stk, innermost first.  The work
\* function of each call it reaches ends by that panic; an ambient BeginTxFunc
\* has no deferred recover and ends by it too, the executor of a root call
\* recovers it.
RECURSIVE Unwind(_, _)
Unwind(stk, v) ==
    IF stk = <<>> THEN [stack |-> <<>>, result |-> Panicked(v), events |-> <<>>]
    ELSE LET n == Len(stk)
             p == stk[n]
         IN  IF p.mode = "ambient"
             THEN LET u == Unwind(SubSeq(stk, 1, n - 1), v)
                  IN  [u EXCEPT !.events = <<FnOut(n, Panicked(v)), RetEvent(p, n, Panicked(v))>> \o @]
             ELSE [stack |-> [stk EXCEPT ![n] = [p EXCEPT !.pc = "recover", !.val = v]],
                   result |-> NoResult,
                   events |-> <<FnOut(n, Panicked(v))>>]

\* The top call panics with v and has no recover of its own left.
Panic(v, events) ==
    LET u == Unwind(Pop, v)
    IN  /\ stack' = u.stack
        /\ result' = IF u.stack = <<>> THEN u.result ELSE result
        /\ log' = log \o events \o <<RetEvent(Top, D, Panicked(v))>> \o u.events

\* ------------------------------------------------------- root BeginTxFunc
\* Error returned when txer.BeginTx fails.
BeginFailure(b, err) == IF b = "pgx" THEN err ELSE TagSQLiteTimeoutErr(err)

\* Error returned when a session directive fails.
ExecFailure(b, err) == IF b = "pgx" THEN err ELSE TagSQLiteTimeoutErr(err)

\* time.Duration.Milliseconds() and int64(d / time.Millisecond)
Milliseconds(d) == TruncDiv(d, Millisecond)

\* Mutant: the pgx directives are issued in the other order.
DirectivesSwapped(r) ==
    IF r.backend = "pgx"
    THEN <<[stmt |-> "SET LOCAL idle_in_transaction_session_timeout", ms |-> Milliseconds(r.Timeout)],
           [stmt |-> "SET LOCAL transaction_timeout", ms |-> Milliseconds(r.Timeout)]>>
    ELSE IF r.Timeout > 0
    THEN <<[stmt |-> "PRAGMA busy_timeout", ms |-> Milliseconds(r.Timeout)]>>
    ELSE <<>>

\* The session directives a root call issues on the new transaction, in order.
Directives(r) ==
    IF r.backend = "pgx"
    THEN <<[stmt |-> "SET LOCAL transaction_timeout", ms |-> Milliseconds(r.Timeout)],
           [stmt |-> "SET LOCAL idle_in_transaction_session_timeout", ms |-> Milliseconds(r.Timeout)]>>
    ELSE IF r.Timeout > 0
    THEN <<[stmt |-> "PRAGMA busy_timeout", ms |-> Milliseconds(r.Timeout)]>>
    ELSE <<>>

\* Mutant: the executor's result is reclassified twice.
FinishTagsTwice(f, doRet) ==
    IF f.mode = "do" THEN doRet
    ELSE IF doRet = Nil THEN Nil
    ELSE IF f.coord.backend = "pgx" THEN TagPGXTimeoutErr(TagPGXTimeoutErr(doRet))
    ELSE TagSQLiteTimeoutErr(TagSQLiteTimeoutErr(doRet))

\* What a root BeginTxFunc returns for the executor's result.
Finish(f, doRet) ==
    IF f.mode = "do" THEN doRet
    ELSE IF doRet = Nil THEN Nil
    ELSE IF f.coord.backend = "pgx" THEN TagPGXTimeoutErr(doRet)
    ELSE TagSQLiteTimeoutErr(doRet)

\* r.txer.BeginTx(ctx, opts)
BeginTx ==
    /\ D > 0 /\ Top.pc = "begin" /\ opened < MaxNested + 1
    /\ \E out \in {Nil} \cup DbErrs(Top.coord.backend, "begin") :
         LET ev == [op |-> "BeginTx", depth |-> D, ctx |-> Top.ctx, err |-> out]
         IN  IF out = Nil
             THEN /\ opened' = opened + 1
                  /\ stack' = SetTop([Top EXCEPT
                         !.tx = HandleOf(Top.coord.backend, opened + 1),
                         !.pc = IF Directives(Top.coord) = <<>> THEN "bind" ELSE "exec"])
                  /\ log' = Append(log, ev)
                  /\ UNCHANGED result
             ELSE /\ Return(BeginFailure(Top.coord.backend, out), <<ev>>)
                  /\ UNCHANGED opened
    /\ wtx' = NoCall
    /\ UNCHANGED <<cfg, root, commits, rollbacks, nested>>
    /\ UNCHANGED auxVars

\* txn.Exec / sqlTx.ExecContext of the next session directive
Exec ==
    /\ D > 0 /\ Top.pc = "exec"
    /\ LET dirs == Directives(Top.coord)
           i == Top.step + 1
       IN  \E out \in {Nil} \cup DbErrs(Top.coord.backend, "exec") :
             LET ev == [op |-> "Exec", depth |-> D, tx |-> Top.tx, ctx |-> Top.ctx,
                        stmt |-> dirs[i].stmt, ms |-> dirs[i].ms, err |-> out]
             IN  IF out = Nil
                 THEN /\ stack' = SetTop([Top EXCEPT !.step = i,
                                            !.pc = IF i = Len(dirs) THEN "bind" ELSE "exec"])
                      /\ log' = Append(log, ev)
                      /\ UNCHANGED result
                 ELSE Return(ExecFailure(Top.coord.backend, out), <<ev>>)
    /\ wtx' = NoCall
    /\ UNCHANGED <<cfg, root, opened, commits, rollbacks, nested>>
    /\ UNCHANGED auxVars

\* r.WithTx(repo, txn): the pgx txer evaluates it inside the function it hands
\* to Do, the sqlite txer before it calls Do.
Bind ==
    /\ D > 0 /\ Top.pc = "bind"
    /\ \E bp \in BOOLEAN :
         LET w == WithTx(Top.coord, Top.repo, Top.tx, bp)
             bev == IF w.binder = 1 THEN <<[op |-> "binder", depth |-> D, cpy |-> w.cpy]>> ELSE <<>>
             dev == <<[op |-> "Do", depth |-> D, tx |-> Top.tx]>>
             f == [Top EXCEPT !.pc = "fn", !.repoTx = w.out.val]
         IN  /\ root' = IF Top.coord = root THEN w.self ELSE root
             /\ IF Top.coord.backend = "pgx"
                THEN /\ stack' = SetTop(IF w.out.kind = "panic"
                                        THEN [Top EXCEPT !.pc = "recover", !.val = w.out.val]
                                        ELSE f)
                     /\ log' = log \o dev \o bev
                                   \o (IF w.out.kind = "panic" THEN <<>> ELSE <<FnEvent(f, D)>>)
                     /\ UNCHANGED result
                ELSE IF w.out.kind = "panic"
                     THEN Panic(w.out.val, bev)
                     ELSE /\ stack' = SetTop(f)
                          /\ log' = log \o bev \o dev \o <<FnEvent(f, D)>>
                          /\ UNCHANGED result
    /\ wtx' = NoCall
    /\ UNCHANGED <<cfg, opened, commits, rollbacks, nested>>
    /\ UNCHANGED auxVars

\* --------------------------------------------------------- the work function

\* The work function calls BeginTxFunc through the repository it was given.
WorkCall ==
    /\ D > 0 /\ Top.pc = "fn" /\ Top.mode # "do"
    /\ D < MaxDepth /\ nested < MaxNested
    /\ LET f == Enter(Top.repoTx.txer, Top.ctx, Top.repoTx)
       IN  /\ stack' = Append(stack, f)
           /\ log' = log \o <<CallEvent(D + 1, Top.repoTx.txer, Top.ctx, Top.repoTx)>>
                         \o EnterLog(f, D + 1)
    /\ nested' = nested + 1
    /\ wtx' = NoCall
    /\ UNCHANGED <<cfg, root, opened, commits, rollbacks, result>>
    /\ UNCHANGED auxVars

\* The work function calls WithTx through the repository it was given.
WorkWithTx ==
    /\ D > 0 /\ Top.pc = "fn" /\ Top.mode # "do"
    /\ \E h \in HandleArgs \cup {Top.tx}, bp \in BOOLEAN :
         wtx' = [called |-> TRUE, coord |-> Top.repoTx.txer, repo |-> Top.repoTx, handle |-> h,
                 res |-> WithTx(Top.repoTx.txer, Top.repoTx, h, bp)]
    /\ UNCHANGED <<cfg, root, stack, opened, commits, rollbacks, nested, log, result>>
    /\ UNCHANGED auxVars

\* The work function returns nil or an error.
WorkReturn ==
    /\ D > 0 /\ Top.pc = "fn"
    /\ \E v \in {Nil} \cup WorkErrs(root.backend) :
         IF Top.mode = "ambient"
         THEN Return(AmbientReturn(v), <<FnOut(D, Returned(v))>>)
         ELSE /\ stack' = SetTop([Top EXCEPT !.pc = IF v = Nil THEN "commit" ELSE "rollback",
                                              !.val = v])
              /\ log' = Append(log, FnOut(D, Returned(v)))
              /\ UNCHANGED result
    /\ wtx' = NoCall
    /\ UNCHANGED <<cfg, root, opened, commits, rollbacks, nested>>
    /\ UNCHANGED auxVars

\* The work function panics.
WorkPanic ==
    /\ D > 0 /\ Top.pc = "fn"
    /\ \E v \in PanicVals :
         IF Top.mode = "ambient"
         THEN Panic(v, <<FnOut(D, Panicked(v))>>)
         ELSE /\ stack' = SetTop([Top EXCEPT !.pc = "recover", !.val = v])
              /\ log' = Append(log, FnOut(D, Panicked(v)))
              /\ UNCHANGED result
    /\ wtx' = NoCall
    /\ UNCHANGED <<cfg, root, opened, commits, rollbacks, nested>>
    /\ UNCHANGED auxVars

\* ----------------------------------------------------------------------- Do
\* Mutant: a failed rollback replaces the work function's error.
DoRollbackResultDropsErr(err, rErr) == IF rErr # Nil THEN rErr ELSE err

\* fn returned err: the error Do returns after Rollback returned rErr.
DoRollbackResult(err, rErr) ==
    IF rErr # Nil
    THEN Errorf("%w; failed to rollback transaction: %w", <<err, rErr>>, <<err, rErr>>)
    ELSE err

\* Mutant: a commit failure is swallowed.
DoCommitResultSwallowed(cErr) == Nil

\* fn returned nil: the error Do returns after Commit returned cErr.
DoCommitResult(cErr) ==
    IF cErr # Nil
    THEN Errorf("failed to commit transaction: %w", <<cErr>>, <<cErr>>)
    ELSE Nil

\* Mutant: a failed rollback replaces the original panic value.
DoRepanicLosesOriginal(r, rErr) == IF rErr # Nil THEN rErr ELSE r

\* fn panicked with r: the value Do panics with after Rollback returned rErr.
DoRepanic(r, rErr) ==
    IF rErr # Nil
    THEN Errorf("panic: %v; failed to rollback transaction: %w", <<r, rErr>>, <<rErr>>)
    ELSE r

TxEvent(op, out) ==
    [op |-> op, depth |-> D, tx |-> Top.tx, ctx |-> Top.ctx, err |-> out, frames |-> D]

\* if err := fn(ctx); err != nil { tx.Rollback(ctx) ... return err }
Rollback ==
    /\ D > 0 /\ Top.pc = "rollback"
    /\ \E rErr \in {Nil} \cup DbErrs(root.backend, "rollback") :
         Return(Finish(Top, DoRollbackResult(Top.val, rErr)), <<TxEvent("Rollback", rErr)>>)
    /\ rollbacks' = [rollbacks EXCEPT ![Top.tx.id] = @ + 1]
    /\ wtx' = NoCall
    /\ UNCHANGED <<cfg, root, opened, commits, nested>>
    /\ UNCHANGED auxVars

\* tx.Commit(ctx) after fn returned nil
Commit ==
    /\ D > 0 /\ Top.pc = "commit"
    /\ \E cErr \in CommitResults(root.backend) :
         Return(Finish(Top, DoCommitResult(cErr)), <<TxEvent("Commit", cErr)>>)
    /\ commits' = [commits EXCEPT ![Top.tx.id] = @ + 1]
    /\ wtx' = NoCall
    /\ UNCHANGED <<cfg, root, opened, rollbacks, nested>>
    /\ UNCHANGED auxVars

\* Mutant: the deferred function re-panics without rolling back.
RecoverNoRollback ==
    /\ D > 0 /\ Top.pc = "recover"
    /\ Panic(Top.val, <<>>)
    /\ wtx' = NoCall
    /\ UNCHANGED <<cfg, root, opened, commits, rollbacks, nested>>
    /\ UNCHANGED auxVars

\* Mutant: the deferred function turns the panic into a returned error.
RecoverReturnsError ==
    /\ D > 0 /\ Top.pc = "recover"
    /\ \E rErr \in {Nil} \cup DbErrs(root.backend, "rollback") :
         Return(Errorf("panic: %v", <<Top.val>>, <<>>), <<TxEvent("Rollback", rErr)>>)
    /\ rollbacks' = [rollbacks EXCEPT ![Top.tx.id] = @ + 1]
    /\ wtx' = NoCall
    /\ UNCHANGED <<cfg, root, opened, commits, nested>>
    /\ UNCHANGED auxVars

\* The deferred function of Do after recover() returned a panic value.
Recover ==
    /\ D > 0 /\ Top.pc = "recover"
    /\ \E rErr \in {Nil} \cup DbErrs(root.backend, "rollback") :
         Panic(DoRepanic(Top.val, rErr), <<TxEvent("Rollback", rErr)>>)
    /\ rollbacks' = [rollbacks EXCEPT ![Top.tx.id] = @ + 1]
    /\ wtx' = NoCall
    /\ UNCHANGED <<cfg, root, opened, commits, nested>>
    /\ UNCHANGED auxVars

Next ==
    \/ CallBeginTxFunc
    \/ CallDo
    \/ RootWithTx
    \/ BeginTx
    \/ Exec
    \/ Bind
    \/ WorkCall
    \/ WorkWithTx
    \/ WorkReturn
    \/ WorkPanic
    \/ Rollback
    \/ Commit
    \/ Recover

Spec == Init /\ [][Next]_vars

\* ------------------------------------------------------- the two classifiers
\* Errors a caller, or BeginTxFunc itself, may hand to a classifier: nil, the
\* drivers' and the context's errors, and what fmt.Errorf builds from them with
\* %v, with one %w and, as Do does for a failed rollback, with two %w.
BaseErrs ==
    {Plain("x"), PgError(IdleInTransactionSessionTimeout), PgError("25P04"), PgError("23505"),
     SqliteError("SQLITE_BUSY"), SqliteError("SQLITE_LOCKED"), SqliteError("SQLITE_CONSTRAINT"),
     DeadlineExceeded, Canceled}
ClsInputs ==
    {Nil} \cup BaseErrs
          \cup {Errorf("query: %w", <<e>>, <<e>>) : e \in BaseErrs}
          \cup {Errorf("query: %v", <<e>>, <<>>) : e \in BaseErrs}
          \cup {DoRollbackResult(e, r) : e \in BaseErrs, r \in BaseErrs}

InitClassify ==
    /\ ChainInit /\ cfg = [backend |-> "pgx", Timeout |-> 0]
    /\ ConcIdle /\ RaceIdle /\ DoIdle /\ KeptIdle
    /\ \E e \in ClsInputs : cls = [NoCls EXCEPT !.in = e]

ClassifyPGX ==
    /\ cls.pgx = NoResult
    /\ cls' = [cls EXCEPT !.pgx = Returned(TagPGXTimeoutErr(cls.in))]
    /\ UNCHANGED <<chainVars, concVars, raceVars, doVars, keptVars>>

ClassifySQLite ==
    /\ cls.sqlite = NoResult
    /\ cls' = [cls EXCEPT !.sqlite = Returned(TagSQLiteTimeoutErr(cls.in))]
    /\ UNCHANGED <<chainVars, concVars, raceVars, doVars, keptVars>>

NextClassify == ClassifyPGX \/ ClassifySQLite

SpecClassify == InitClassify /\ [][NextClassify]_vars

\* ------------------------------- goroutines sharing one root coordinator
\* Every goroutine calls BeginTxFunc(ctx, repo, fn) once on the root
\* coordinator; each step below is one call the goroutine makes, reading the
\* shared coordinator as it is at that moment.
InitConc ==
    /\ ChainInit /\ cfg.Timeout = 0
    /\ ClsIdle /\ RaceIdle /\ ConcIdle /\ DoIdle /\ KeptIdle

\* What goroutine p's BeginTxFunc returns.
GoReturn(p, out) == [gor EXCEPT ![p].pc = "done", ![p].ret = out]

concOthers == <<cfg, stack, opened, commits, rollbacks, nested, log, result, wtx, clsVars, raceVars, doVars, keptVars>>

\* if r.txn != nil { return fn(ctx, r.txn, repo) }
GoCall(p) ==
    /\ gor[p].pc = "idle"
    /\ gor' = IF IsAmbient(root)
              THEN [gor EXCEPT ![p].pc = "fn", ![p].mode = "ambient", ![p].fnTx = root.txn,
                               ![p].fnBound = Repo0.bound, ![p].fnTxn = Repo0.txer.txn]
              ELSE [gor EXCEPT ![p].pc = "begin", ![p].mode = "root"]
    /\ UNCHANGED <<root, pool, concOthers>>

\* r.txer.BeginTx(ctx, opts)
GoBeginTx(p) ==
    /\ gor[p].pc = "begin"
    /\ \E out \in {Nil} \cup DbErrs(root.backend, "begin") :
         IF out = Nil
         THEN /\ pool' = pool + 1
              /\ gor' = [gor EXCEPT ![p].tx = HandleOf(root.backend, pool + 1),
                                    ![p].pc = IF Directives(root) = <<>> THEN "bind" ELSE "exec"]
         ELSE /\ gor' = GoReturn(p, Returned(BeginFailure(root.backend, out)))
              /\ UNCHANGED pool
    /\ UNCHANGED <<root, concOthers>>

\* The session directives, issued on the goroutine's own transaction.
GoExec(p) ==
    /\ gor[p].pc = "exec"
    /\ \E out \in {Nil} \cup DbErrs(root.backend, "exec") :
         gor' = IF out = Nil THEN [gor EXCEPT ![p].pc = "bind"]
                ELSE GoReturn(p, Returned(ExecFailure(root.backend, out)))
    /\ UNCHANGED <<root, pool, concOthers>>

\* r.WithTx(repo, txn), then fn is entered with the goroutine's handle and the
\* repository WithTx returned.
GoBind(p) ==
    /\ gor[p].pc = "bind"
    /\ LET w == WithTx(root, Repo0, gor[p].tx, FALSE)
       IN  /\ root' = w.self
           /\ gor' = IF w.out.kind = "panic" THEN GoReturn(p, w.out)
                     ELSE [gor EXCEPT ![p].pc = "fn", ![p].fnTx = gor[p].tx,
                                      ![p].fnBound = w.out.val.bound,
                                      ![p].fnTxn = w.out.val.txer.txn]
    /\ UNCHANGED <<pool, concOthers>>

\* The work function returns nil or an error.
GoWork(p) ==
    /\ gor[p].pc = "fn"
    /\ \E v \in {Nil} \cup WorkErrs(root.backend) :
         gor' = IF gor[p].mode = "ambient" THEN GoReturn(p, Returned(AmbientReturn(v)))
                ELSE [gor EXCEPT ![p].pc = "resolve", ![p].err = v]
    /\ UNCHANGED <<root, pool, concOthers>>

\* Do: tx.Commit(ctx) after fn returned nil.
GoCommit(p) ==
    /\ gor[p].pc = "resolve" /\ gor[p].err = Nil
    /\ \E cErr \in CommitResults(root.backend) :
         gor' = [GoReturn(p, Returned(Finish([mode |-> "root", coord |-> root],
                                             DoCommitResult(cErr))))
                   EXCEPT ![p].acted = Append(@, [op |-> "Commit", tx |-> gor[p].tx])]
    /\ UNCHANGED <<root, pool, concOthers>>

\* Do: tx.Rollback(ctx) after fn returned an error.
GoRollback(p) ==
    /\ gor[p].pc = "resolve" /\ gor[p].err # Nil
    /\ \E rErr \in {Nil} \cup DbErrs(root.backend, "rollback") :
         gor' = [GoReturn(p, Returned(Finish([mode |-> "root", coord |-> root],
                                             DoRollbackResult(gor[p].err, rErr))))
                   EXCEPT ![p].acted = Append(@, [op |-> "Rollback", tx |-> gor[p].tx])]
    /\ UNCHANGED <<root, pool, concOthers>>

NextConc ==
    \E p \in Procs :
        \/ GoCall(p)
        \/ GoBeginTx(p)
        \/ GoExec(p)
        \/ GoBind(p)
        \/ GoWork(p)
        \/ GoCommit(p)
        \/ GoRollback(p)

SpecConc == InitConc /\ [][NextConc]_vars

\* ------------------------------------------- Do on a handle that may panic
\* One Do(ctx, tx, fn) call where tx.Commit and tx.Rollback may panic instead
\* of returning.  dox.calls lists the calls made on the handle and how each
\* ended.
doOthers == <<chainVars, clsVars, concVars, raceVars, keptVars>>

InitDo ==
    /\ ChainInit /\ cfg.Timeout = 0
    /\ ClsIdle /\ ConcIdle /\ RaceIdle /\ DoIdle /\ KeptIdle

\* What a panicking Commit or Rollback panics with.
HandlePanicVals == {StringPanic("tx"), Plain("txfault")}

HandleCall(op, out) == [op |-> op, out |-> out]
DoEnd(out, call) == [dox EXCEPT !.pc = "done", !.ret = out, !.calls = Append(@, call)]
\* A panic below the deferred function: recover() yields v.
DoToRecover(v, call) == [dox EXCEPT !.pc = "recover", !.val = v, !.calls = Append(@, call)]

DoCall ==
    /\ dox.pc = "idle"
    /\ dox' = [dox EXCEPT !.pc = "fn"]
    /\ UNCHANGED doOthers

\* fn(ctx) returns nil, returns an error or panics.
DoFn ==
    /\ dox.pc = "fn"
    /\ \/ dox' = [dox EXCEPT !.pc = "commit"]
       \/ \E e \in WorkErrs(root.backend) : dox' = [dox EXCEPT !.pc = "rollback", !.val = e]
       \/ \E v \in PanicVals : dox' = [dox EXCEPT !.pc = "recover", !.val = v]
    /\ UNCHANGED doOthers

\* if cErr := tx.Commit(ctx); cErr != nil { return fmt.Errorf(...) }; return nil
DoCommit ==
    /\ dox.pc = "commit"
    /\ \/ \E cErr \in CommitResults(root.backend) :
            dox' = DoEnd(Returned(DoCommitResult(cErr)), HandleCall("Commit", Returned(cErr)))
       \/ \E v \in HandlePanicVals :
            dox' = DoToRecover(v, HandleCall("Commit", Panicked(v)))
    /\ UNCHANGED doOthers

\* if rErr := tx.Rollback(ctx); rErr != nil { err = fmt.Errorf(...) }; return err
DoRollback ==
    /\ dox.pc = "rollback"
    /\ \/ \E rErr \in {Nil} \cup DbErrs(root.backend, "rollback") :
            dox' = DoEnd(Returned(DoRollbackResult(dox.val, rErr)),
                         HandleCall("Rollback", Returned(rErr)))
       \/ \E v \in HandlePanicVals :
            dox' = DoToRecover(v, HandleCall("Rollback", Panicked(v)))
    /\ UNCHANGED doOthers

\* The deferred function after recover() returned a value: tx.Rollback(ctx),
\* then panic again.  A panic of Rollback here leaves Do as it is.
DoRecover ==
    /\ dox.pc = "recover"
    /\ \/ \E rErr \in {Nil} \cup DbErrs(root.backend, "rollback") :
            dox' = DoEnd(Panicked(DoRepanic(dox.val, rErr)),
                         HandleCall("Rollback", Returned(rErr)))
       \/ \E v \in HandlePanicVals :
            dox' = DoEnd(Panicked(v), HandleCall("Rollback", Panicked(v)))
    /\ UNCHANGED doOthers

NextDo ==
    \/ DoCall
    \/ DoFn
    \/ DoCommit
    \/ DoRollback
    \/ DoRecover

SpecDo == InitDo /\ [][NextDo]_vars

\* ----------------------------------------- a kept transaction-bound copy
\* The work function of a root BeginTxFunc stores the repository it was given
\* (the binder put the coordinator copy on it); the caller calls BeginTxFunc
\* through that repository after the root call has returned.  kept.invoked
\* lists the work function invocations: the handle passed, the state of its
\* transaction then, and what InTx() of the coordinator used answered.
keptOthers == <<chainVars, clsVars, concVars, raceVars, doVars>>

InitKept ==
    /\ ChainInit
    /\ ClsIdle /\ ConcIdle /\ RaceIdle /\ DoIdle /\ KeptIdle

Invocation(r, tx, state) == [tx |-> tx, state |-> state, inTx |-> InTx(r)]

\* Root BeginTxFunc up to the invocation of fn; BeginTx, the directives and
\* the binder succeed.
KeptRootCall ==
    /\ kept.pc = "idle"
    /\ LET tx == HandleOf(root.backend, 1)
           w == WithTx(root, Repo0, tx, FALSE)
       IN  kept' = [kept EXCEPT !.pc = "fn", !.repoTx = w.out.val, !.state = "open",
                                !.invoked = <<Invocation(w.cpy, tx, "open")>>]
    /\ UNCHANGED keptOthers

\* fn keeps repoTx and returns.
KeptFnReturn ==
    /\ kept.pc = "fn"
    /\ \E v \in {Nil} \cup WorkErrs(root.backend) :
         kept' = [kept EXCEPT !.pc = IF v = Nil THEN "commit" ELSE "rollback", !.val = v]
    /\ UNCHANGED keptOthers

\* Do commits; the root call returns.
KeptCommit ==
    /\ kept.pc = "commit"
    /\ \E cErr \in CommitResults(root.backend) :
         kept' = [kept EXCEPT !.pc = "returned",
                              !.state = IF cErr = Nil THEN "committed" ELSE "failed",
                              !.ret = Returned(Finish([mode |-> "root", coord |-> root],
                                                      DoCommitResult(cErr)))]
    /\ UNCHANGED keptOthers

\* Do rolls back; the root call returns.
KeptRollback ==
    /\ kept.pc = "rollback"
    /\ \E rErr \in {Nil} \cup DbErrs(root.backend, "rollback") :
         kept' = [kept EXCEPT !.pc = "returned",
                              !.state = IF rErr = Nil THEN "rolledback" ELSE "failed",
                              !.ret = Returned(Finish([mode |-> "root", coord |-> root],
                                                      DoRollbackResult(kept.val, rErr)))]
    /\ UNCHANGED keptOthers

\* BeginTxFunc through the kept repository: its coordinator has txn set, so
\* fn(ctx, r.txn, repo) is called directly.
KeptBeginTxFunc ==
    /\ kept.pc = "returned"
    /\ LET r == kept.repoTx.txer
           f == Enter(r, Background, kept.repoTx)
       IN  /\ f.mode = "ambient"
           /\ kept' = [kept EXCEPT !.pc = "fn2",
                                   !.invoked = Append(@, Invocation(r, f.tx, kept.state))]
    /\ UNCHANGED keptOthers

\* The second work function returns, and BeginTxFunc with it.
KeptSecondReturn ==
    /\ kept.pc = "fn2"
    /\ \E v \in {Nil} \cup WorkErrs(root.backend) :
         kept' = [kept EXCEPT !.pc = "done", !.ret = Returned(AmbientReturn(v))]
    /\ UNCHANGED keptOthers

NextKept ==
    \/ KeptRootCall
    \/ KeptFnReturn
    \/ KeptCommit
    \/ KeptRollback
    \/ KeptBeginTxFunc
    \/ KeptSecondReturn

SpecKept == InitKept /\ [][NextKept]_vars

\* --------------------------------------------------- SQLTxWrapper.Commit
\* One Commit(ctx) call on the adapter: the calling goroutine (race.pc), the
\* goroutine that runs the native commit (race.native), the buffered channel
\* between them (race.done) and the context.  race.first tells which of the
\* context becoming done and the native commit completing happened first,
\* race.ready which cases of the select were ready when it chose.

\* sql.ErrTxDone: what Commit and Rollback of a *sql.Tx return once one of
\* them has been started on it.
ErrTxDone == Plain("sql: transaction has already been committed or rolled back")
\* What (*sql.Tx).Commit may return; nil means the transaction is committed.
NativeCommitResults == {Nil, Plain("commit"), SqliteError("SQLITE_BUSY")}
\* What (*sql.Tx).Rollback may return when it gets in before the committing
\* goroutine has called Commit; afterwards it returns ErrTxDone.
NativeRollbackResults == {Nil, Plain("rollback")}
\* What ctx.Err() returns once the context is done.
CtxErrs == {DeadlineExceeded, Canceled}

raceOthers == <<chainVars, clsVars, concVars, doVars, keptVars>>

\* The context may already be done when Commit is called.
InitRace ==
    /\ ChainInit /\ cfg = [backend |-> "sqlite", Timeout |-> 0]
    /\ ClsIdle /\ ConcIdle /\ DoIdle /\ KeptIdle
    /\ \/ race = NoRace
       \/ \E e \in CtxErrs : race = [NoRace EXCEPT !.ctxDone = TRUE, !.ctxErr = e, !.first = "ctx"]

\* The cases of the select that can proceed.
ReadyCases ==
    (IF race.done # <<>> THEN {"done"} ELSE {}) \cup (IF race.ctxDone THEN {"ctx"} ELSE {})

\* done := make(chan error, 1); go func() { done <- s.base.Commit() }()
CommitCall ==
    /\ race.pc = "idle"
    /\ race' = [race EXCEPT !.pc = "select", !.native = "spawned"]
    /\ UNCHANGED raceOthers

\* The committing goroutine calls s.base.Commit().
NativeCommitStarts ==
    /\ race.native = "spawned"
    /\ race' = [race EXCEPT !.native = "running"]
    /\ UNCHANGED raceOthers

\* s.base.Commit() returns in the committing goroutine.
NativeCommitReturns ==
    /\ race.native = "running"
    /\ \E r \in (IF race.rollbacks > 0 /\ race.rbRes # ErrTxDone
                 THEN {ErrTxDone} ELSE NativeCommitResults) :
         race' = [race EXCEPT !.native = "returned", !.nativeRes = r,
                              !.first = IF @ = "none" THEN "commit" ELSE @]
    /\ UNCHANGED raceOthers

\* make(chan error, 1)
DoneCap == 1

\* Mutant: the channel is unbuffered, a send needs the receiver in the select.
SendCanProceedUnbuffered(ch) == race.pc = "select"

\* A send on the buffered channel proceeds when the buffer has room.
SendCanProceed(ch) == Len(ch) < DoneCap

\* done <- result
ChanSend ==
    /\ race.native = "returned" /\ SendCanProceed(race.done)
    /\ race' = [race EXCEPT !.native = "sent", !.done = <<race.nativeRes>>]
    /\ UNCHANGED raceOthers

\* The context's deadline passes or the context is cancelled.
CtxBecomesDone ==
    /\ ~race.ctxDone
    /\ \E e \in CtxErrs :
         race' = [race EXCEPT !.ctxDone = TRUE, !.ctxErr = e,
                              !.first = IF @ = "none" THEN "ctx" ELSE @]
    /\ UNCHANGED raceOthers

\* case err := <-done: return err
SelectDone ==
    /\ race.pc = "select" /\ race.done # <<>>
    /\ race' = [race EXCEPT !.pc = "returned", !.ready = ReadyCases,
                            !.ret = Returned(race.done[1]), !.done = <<>>]
    /\ UNCHANGED raceOthers

\* Mutant: the context case returns what the native rollback returned.
CtxCaseReturnsRollbackErr(ctxErr, rb) == rb

\* return ctx.Err(), whatever the native rollback returned
CtxCaseReturn(ctxErr, rb) == ctxErr

\* case <-ctx.Done(): _ = s.base.Rollback(); return ctx.Err()
SelectCtxDone ==
    /\ race.pc = "select" /\ race.ctxDone
    /\ \E rb \in (IF race.native = "spawned" THEN NativeRollbackResults ELSE {ErrTxDone}) :
         race' = [race EXCEPT !.pc = "returned", !.ready = ReadyCases,
                              !.rollbacks = @ + 1, !.rbRes = rb,
                              !.ret = Returned(CtxCaseReturn(race.ctxErr, rb))]
    /\ UNCHANGED raceOthers

NextRace ==
    \/ CommitCall
    \/ NativeCommitStarts
    \/ NativeCommitReturns
    \/ ChanSend
    \/ CtxBecomesDone
    \/ SelectDone
    \/ SelectCtxDone

\* The calling goroutine is scheduled: a select with a ready case proceeds.
\* Nothing makes the native commit return or the context become done.
SpecRace == InitRace /\ [][NextRace]_vars /\ WF_vars(SelectDone \/ SelectCtxDone)

\* The committing goroutine is scheduled too: a send that can proceed does.
SpecRaceSend ==
    InitRace /\ [][NextRace]_vars /\ WF_vars(SelectDone \/ SelectCtxDone) /\ WF_vars(ChanSend)

\* =================================================================== claims
Done == stack = <<>> /\ result # NoResult
EvIdx(op) == {i \in 1..Len(log) : log[i].op = op}

\* Index of the "ret" event that ends the call whose event is at index i, or
\* Len(log) + 1 while that call is in progress.
SegEnd(i) ==
    LET rets == {j \in (i + 1)..Len(log) : log[j].op = "ret" /\ log[j].depth = log[i].depth}
    IN  IF rets = {} THEN Len(log) + 1 ELSE CHOOSE j \in rets : \A k \in rets : j <= k

\* What the outermost work function did, once it has ended.
OuterFnOut ==
    LET outs == {i \in EvIdx("fnout") : log[i].depth = 1}
    IN  IF outs = {} THEN NoResult ELSE log[CHOOSE i \in outs : TRUE].out

\* The first panic of a work function in the chain.
WorkPanicVal ==
    LET ps == {i \in EvIdx("fnout") : log[i].out.kind = "panic"}
    IN  IF ps = {} THEN NoResult ELSE log[CHOOSE i \in ps : \A k \in ps : i <= k].out

\* What the Commit / Rollback call on the outermost handle returned.
TxErr(op) ==
    LET es == EvIdx(op)
    IN  IF es = {} THEN Nil ELSE log[CHOOSE i \in es : TRUE].err

Untag(e) == IF e.k = "tag" THEN e.cause ELSE e
IsTimeoutClass(e) ==
    \E i \in 1..Len(Chain(e)) :
        \/ Chain(e)[i].k = "pg" /\ Chain(e)[i].code \in {"25P03", "25P04"}
        \/ Chain(e)[i].k = "sqlite" /\ Chain(e)[i].code \in {"SQLITE_BUSY", "SQLITE_LOCKED"}
        \/ Chain(e)[i] = DeadlineExceeded /\ root.backend = "sqlite"
RootChain == Len(log) > 0 /\ log[1].entry = "BeginTxFunc"

\* C1: every call of Do invokes exactly one of Commit and Rollback on its
\* handle and invokes it exactly once, whether work returns nil, returns an
\* error or panics and whatever Commit and Rollback return.
C1_ExactlyOneResolution ==
    /\ \A t \in TxIds : commits[t] + rollbacks[t] <= 1
    /\ \A i \in EvIdx("Do") :
         SegEnd(i) <= Len(log) =>
            /\ commits[log[i].tx.id] + rollbacks[log[i].tx.id] = 1
            /\ Cardinality({j \in EvIdx("Commit") \cup EvIdx("Rollback") :
                               log[j].tx = log[i].tx /\ i < j /\ j < SegEnd(i)}) = 1

C1_Witness ==
    /\ Done /\ log[1].entry = "Do"
    /\ OuterFnOut.kind = "panic" /\ rollbacks[1] = 1 /\ TxErr("Rollback") # Nil

\* C2: every native transaction a root BeginTxFunc opened is committed or
\* rolled back exactly once by the time BeginTxFunc has returned or panicked,
\* on every exit path.
C2_EveryOpenedTxResolved ==
    Done => \A t \in 1..opened : commits[t] + rollbacks[t] = 1

\* C3 (as claimed): when the work function of a root BeginTxFunc returns a
\* non-nil error e, Rollback is invoked, Commit is not, and BeginTxFunc returns
\* e itself (rollback succeeded) or the combination of e and the rollback
\* failure (rollback failed).
C3_ReturnsWorkErrorItself ==
    (RootChain /\ OuterFnOut.kind = "return" /\ OuterFnOut.val # Nil) =>
        /\ commits[1] = 0
        /\ Done =>
            /\ rollbacks[1] = 1
            /\ result.kind = "return"
            /\ IF TxErr("Rollback") = Nil
               THEN result.val = OuterFnOut.val
               ELSE /\ result.val.k = "wrap"
                    /\ result.val.unwrap = <<OuterFnOut.val, TxErr("Rollback")>>

\* C3 (amended): as above, except that the error is returned wrapped in the
\* timeout tag when the classifier recognises it: the untagged error is e
\* itself or the combination, it is untagged when neither e nor the rollback
\* failure is a timeout error, tagged when e is one, and e stays in its chain.
C3_ReturnsWorkErrorMaybeTagged ==
    (RootChain /\ OuterFnOut.kind = "return" /\ OuterFnOut.val # Nil) =>
        /\ commits[1] = 0
        /\ Done =>
            /\ rollbacks[1] = 1
            /\ result.kind = "return"
            /\ LET e == OuterFnOut.val
                   rErr == TxErr("Rollback")
                   core == Untag(result.val)
               IN  /\ IF rErr = Nil THEN core = e
                      ELSE core.k = "wrap" /\ core.unwrap = <<e, rErr>>
                   /\ ErrorsIs(result.val, e)
                   /\ (~IsTimeoutClass(e) /\ ~IsTimeoutClass(rErr)) => result.val = core
                   /\ IsTimeoutClass(e) => result.val.k = "tag" /\ result.val.cause = core

C3_Witness ==
    /\ Done /\ RootChain
    /\ OuterFnOut.kind = "return" /\ IsTimeoutClass(OuterFnOut.val)
    /\ TxErr("Rollback") # Nil /\ result.val.k = "tag"

\* C4: when the work function returns nil, Commit is invoked and Rollback is
\* not, and the call returns nil exactly when Commit returned nil; a failing
\* Commit gives an error that wraps the commit failure.
C4_CommitOnNil ==
    OuterFnOut = Returned(Nil) =>
        /\ rollbacks[1] = 0
        /\ Done =>
            /\ commits[1] = 1
            /\ result.kind = "return"
            /\ (result.val = Nil) <=> (TxErr("Commit") = Nil)
            /\ TxErr("Commit") # Nil =>
                 /\ Untag(result.val).k = "wrap"
                 /\ Untag(result.val).unwrap = <<TxErr("Commit")>>

C4_Witness ==
    /\ Done /\ RootChain /\ OuterFnOut = Returned(Nil)
    /\ commits[1] = 1 /\ TxErr("Commit") # Nil /\ result.val # Nil

\* C5: when a work function panics inside Do, Rollback is invoked, Commit is
\* not, and the call ends by panicking; it never returns normally.
C5_PanicRollsBackAndRepanics ==
    WorkPanicVal.kind = "panic" =>
        /\ commits[1] = 0
        /\ Done => result.kind = "panic" /\ rollbacks[1] = 1

C5_Witness ==
    /\ Done /\ RootChain /\ OuterFnOut.kind = "panic"
    /\ result.kind = "panic" /\ rollbacks[1] = 1 /\ commits[1] = 0

\* C6 (as claimed): the re-raised panic value is v itself when Rollback
\* succeeds, and still has v's type, identifies v and carries rErr when
\* Rollback fails with rErr.
C6_RepanicKeepsFaultType ==
    (Done /\ WorkPanicVal.kind = "panic") =>
        /\ result.kind = "panic"
        /\ result.val.k = WorkPanicVal.val.k
        /\ TxErr("Rollback") = Nil => result.val = WorkPanicVal.val
        /\ TxErr("Rollback") # Nil => ErrorsIs(result.val, TxErr("Rollback"))

\* C6 (amended): the re-raised panic value is v itself when Rollback succeeds;
\* when Rollback fails with rErr it is a new error value whose message renders
\* v and rErr and whose Unwrap gives rErr only.
C6_RepanicAnnotated ==
    (Done /\ WorkPanicVal.kind = "panic") =>
        /\ result.kind = "panic"
        /\ TxErr("Rollback") = Nil => result.val = WorkPanicVal.val
        /\ TxErr("Rollback") # Nil =>
             /\ result.val.k = "wrap"
             /\ result.val.operands = <<WorkPanicVal.val, TxErr("Rollback")>>
             /\ result.val.unwrap = <<TxErr("Rollback")>>

C6_Witness ==
    /\ Done /\ WorkPanicVal = Panicked(StringPanic("boom"))
    /\ TxErr("Rollback") # Nil /\ result.kind = "panic" /\ result.val.k = "wrap"

\* C7: a BeginTxFunc call on a coordinator whose transaction is set makes no
\* BeginTx call, issues no directive, derives no deadline, invokes the inner
\* function exactly once with the coordinator's handle, the caller's context
\* and the caller's repository, and returns exactly what that function returns.
C7_AmbientReuse ==
    \A i \in EvIdx("call") :
        log[i].coord.txn # NoTx =>
            LET d == log[i].depth
                e == SegEnd(i)
                seg == {j \in (i + 1)..(e - 1) : log[j].depth = d}
            IN  /\ \A j \in seg : log[j].op \in {"fn", "fnout"}
                /\ Cardinality({j \in seg : log[j].op = "fn"}) = 1
                /\ i + 1 <= Len(log)
                /\ log[i + 1] = [op |-> "fn", depth |-> d, mode |-> "ambient", ctx |-> log[i].ctx,
                                 tx |-> log[i].coord.txn, repo |-> log[i].repo]
                /\ e <= Len(log) =>
                     \E j \in seg : log[j].op = "fnout" /\ log[e].out = log[j].out

C7_Witness ==
    \E i \in EvIdx("call") :
        /\ log[i].coord.txn # NoTx
        /\ SegEnd(i) <= Len(log)
        /\ log[SegEnd(i)].out = Returned(TimeoutErr(root.backend))

\* C8: in one top-level BeginTxFunc chain exactly one native transaction is
\* begun, nested calls invoke neither Commit nor Rollback, and the single
\* Commit or Rollback is made by the outermost call when no work function of
\* the chain is still running.
C8_OneTxPerChain ==
    RootChain =>
        /\ opened <= 1
        /\ Cardinality({i \in EvIdx("BeginTx") : log[i].err = Nil}) = opened
        /\ EvIdx("fn") # {} => opened = 1
        /\ Cardinality(EvIdx("Commit") \cup EvIdx("Rollback")) <= 1
        /\ \A j \in EvIdx("Commit") \cup EvIdx("Rollback") :
             /\ log[j].depth = 1 /\ log[j].frames = 1
             /\ \A i \in EvIdx("fn") :
                  i < j => \E k \in EvIdx("fnout") :
                              i < k /\ k < j /\ log[k].depth = log[i].depth

C8_Witness ==
    /\ Done /\ RootChain /\ commits[1] = 1 /\ opened = 1
    /\ \E i \in EvIdx("fn") : log[i].depth = 3

\* C9: WithTx on a coordinator whose transaction is set returns its input
\* repository unchanged for every handle argument, without invoking the binder
\* and without changing the coordinator.
C9_WithTxAmbientIdentity ==
    (wtx.called /\ wtx.coord.txn # NoTx) =>
        /\ wtx.res.out = Returned(wtx.repo)
        /\ wtx.res.binder = 0
        /\ wtx.res.cpy = wtx.coord

C9_Witness ==
    /\ wtx.called /\ wtx.coord.txn # NoTx
    /\ wtx.handle.type = "other" /\ wtx.res.out = Returned(wtx.repo)

\* C10 (as claimed): WithTx with a handle of the wrong backend type raises a
\* panic on every coordinator.
C10_WrongTypePanicsEverywhere ==
    (wtx.called /\ wtx.handle.type # (IF wtx.coord.backend = "pgx" THEN "pgx.Tx"
                                       ELSE "*tx.SQLTxWrapper")) =>
        wtx.res.out.kind = "panic"

\* C10 (amended): WithTx with a handle of the wrong backend type raises a panic
\* on every coordinator whose active transaction is absent, without invoking
\* the binder.
C10_WrongTypePanicsOnRoot ==
    (wtx.called /\ wtx.coord.txn = NoTx
       /\ wtx.handle.type # (IF wtx.coord.backend = "pgx" THEN "pgx.Tx"
                              ELSE "*tx.SQLTxWrapper")) =>
        wtx.res.out.kind = "panic" /\ wtx.res.binder = 0

C10_Witness ==
    /\ wtx.called /\ wtx.coord.txn = NoTx
    /\ wtx.handle.type = "other" /\ wtx.res.out.kind = "panic"

\* C11: the root coordinator never holds an active transaction, so InTx() on
\* it is false after any WithTx or BeginTxFunc call; the coordinator handed to
\* the binder is a distinct copy of the receiver whose InTx() is true and whose
\* transaction is the handle passed in, which in BeginTxFunc is the handle
\* just opened.
C11_RootNeverInTx ==
    /\ root.txn = NoTx /\ ~InTx(root)
    /\ \A i \in EvIdx("binder") :
         /\ InTx(log[i].cpy) /\ log[i].cpy # root
         /\ [log[i].cpy EXCEPT !.txn = NoTx] = root
         /\ log[i].cpy.txn.type = (IF root.backend = "pgx" THEN "pgx.Tx" ELSE "*tx.SQLTxWrapper")
         /\ log[i].cpy.txn.id =
               Cardinality({j \in EvIdx("BeginTx") : j < i /\ log[j].err = Nil})
    /\ (wtx.called /\ wtx.res.binder = 1) =>
         /\ InTx(wtx.res.cpy) /\ wtx.res.cpy # wtx.coord
         /\ wtx.res.cpy.txn = wtx.handle
         /\ [wtx.res.cpy EXCEPT !.txn = NoTx] = wtx.coord

C11_Witness ==
    /\ Done /\ RootChain /\ commits[1] = 1 /\ ~InTx(root)
    /\ \E i \in EvIdx("binder") : log[i].cpy.txn.id = 1

\* C12: for every configured Timeout (zero, negative, within range, above ten
\* seconds) the coordinator's Timeout lies in (0, 10s]: it is the configured
\* value when that value is in (0, 10s] and ten seconds otherwise.
C12_EffectiveTimeoutInRange ==
    /\ root.Timeout > 0 /\ root.Timeout <= 10 * Second
    /\ root.Timeout = (IF cfg.Timeout > 0 /\ cfg.Timeout <= 10 * Second
                       THEN cfg.Timeout ELSE 10 * Second)

\* A backend error with one of the two timeout codes is in the unwrap chain.
PgTimeoutIn(e) ==
    \E i \in 1..Len(Chain(e)) : Chain(e)[i].k = "pg" /\ Chain(e)[i].code \in {"25P03", "25P04"}

\* C13: on a pgx coordinator with Timeout 50ms, when the backend aborts the
\* transaction with its timeout code and that error comes back from the work
\* function or, the work function having returned nil, from Commit,
\* BeginTxFunc returns an error that carries the transaction-timeout tag.
C13_BackendTimeoutTagged ==
    (/\ Done /\ RootChain /\ root.backend = "pgx" /\ root.Timeout = 50 * Millisecond
     /\ \/ OuterFnOut.kind = "return" /\ PgTimeoutIn(OuterFnOut.val)
        \/ OuterFnOut = Returned(Nil) /\ PgTimeoutIn(TxErr("Commit")))
    => /\ result.kind = "return"
       /\ result.val.k = "tag" /\ result.val.tag = "ErrTagTransactionTimeout"
       /\ ErrorsAs(result.val, "tag") = result.val

C13_Witness ==
    /\ Done /\ RootChain /\ root.backend = "pgx" /\ root.Timeout = 50 * Millisecond
    /\ OuterFnOut = Returned(Nil) /\ TxErr("Commit") = PgError("25P04")
    /\ result.kind = "return" /\ result.val.k = "tag"

\* C14: TagPGXTimeoutErr returns its input wrapped in the transaction-timeout
\* tag, the input being the cause, exactly when the input's unwrap chain
\* contains a backend error with code 25P03 or 25P04, and returns every other
\* input, nil and context errors included, unchanged.
C14_PGXTagsIffTimeoutInChain ==
    cls.pgx # NoResult =>
        cls.pgx = Returned(IF PgTimeoutIn(cls.in) THEN Tag(cls.in) ELSE cls.in)

\* A SQLite error with a busy or locked code is in the unwrap chain.
SqliteBusyIn(e) ==
    \E i \in 1..Len(Chain(e)) :
        Chain(e)[i].k = "sqlite" /\ Chain(e)[i].code \in {"SQLITE_BUSY", "SQLITE_LOCKED"}

\* C15: TagSQLiteTimeoutErr returns nil for nil, returns its input wrapped in
\* the transaction-timeout tag exactly when the input's unwrap chain contains
\* context.DeadlineExceeded or a SQLite error with code SQLITE_BUSY or
\* SQLITE_LOCKED, and returns every other input, context.Canceled included,
\* unchanged.
C15_SQLiteTagsIffTimeoutInChain ==
    cls.sqlite # NoResult =>
        cls.sqlite = Returned(IF cls.in = Nil THEN Nil
                              ELSE IF ErrorsIs(cls.in, DeadlineExceeded) \/ SqliteBusyIn(cls.in)
                              THEN Tag(cls.in) ELSE cls.in)

\* Number of timeout-tag layers in an error's unwrap chain.
TagLayers(e) == Cardinality({i \in 1..Len(Chain(e)) : Chain(e)[i].k = "tag"})

\* C16: in one call chain the timeout reclassification is applied by the
\* outermost BeginTxFunc only: a nested BeginTxFunc returns the very value its
\* inner function returned, with no tag on it, and the error the outermost
\* call returns carries at most one tag layer, which is then its outermost
\* layer.
C16_ReclassifiedOnceAtRoot ==
    RootChain =>
        /\ \A j \in EvIdx("ret") :
             (log[j].mode = "ambient" /\ log[j].out.kind = "return") =>
                /\ TagLayers(log[j].out.val) = 0
                /\ \E k \in EvIdx("fnout") :
                     k < j /\ log[k].depth = log[j].depth /\ log[k].out = log[j].out
        /\ (Done /\ result.kind = "return") =>
             /\ TagLayers(result.val) <= 1
             /\ TagLayers(result.val) = 1 => result.val.k = "tag"

C16_Witness ==
    /\ Done /\ RootChain /\ result.kind = "return"
    /\ result.val.k = "tag" /\ TagLayers(result.val) = 1
    /\ \E j \in EvIdx("ret") :
         /\ log[j].mode = "ambient" /\ log[j].depth = 2
         /\ log[j].out.kind = "return" /\ log[j].out.val = result.val.cause

\* C17: the error a root BeginTxFunc returns still matches, through its unwrap
\* chain, the errors it was built from: the work function's error and the
\* rollback failure when there was one, the commit failure, and, when the
\* error is tagged, the error the tag was put on.
C17_RootCauseInspectable ==
    (Done /\ RootChain /\ result.kind = "return") =>
        /\ (OuterFnOut.kind = "return" /\ OuterFnOut.val # Nil) =>
              /\ ErrorsIs(result.val, OuterFnOut.val)
              /\ TxErr("Rollback") # Nil => ErrorsIs(result.val, TxErr("Rollback"))
        /\ (OuterFnOut = Returned(Nil) /\ TxErr("Commit") # Nil) =>
              ErrorsIs(result.val, TxErr("Commit"))
        /\ result.val.k = "tag" =>
              /\ result.val.cause # Nil
              /\ ErrorsIs(result.val, result.val.cause)
              /\ \A i \in 1..Len(Chain(result.val.cause)) :
                    ErrorsIs(result.val, Chain(result.val.cause)[i])

C17_Witness ==
    /\ Done /\ RootChain /\ result.kind = "return"
    /\ result.val.k = "tag" /\ result.val.cause.k = "wrap"
    /\ result.val.cause.unwrap = <<OuterFnOut.val, TxErr("Rollback")>>
    /\ TxErr("Rollback") # Nil

\* The goroutines whose work function has been entered.
Entered(p) == gor[p].pc \in {"fn", "resolve"} \/ (gor[p].pc = "done" /\ gor[p].acted # <<>>)

\* C18: when several goroutines call BeginTxFunc on the same root coordinator,
\* every call whose work function runs has begun a native transaction of its
\* own, its work function gets that transaction's handle and a repository
\* bound to it, Commit and Rollback are invoked by a call on its own handle
\* only and once, and the root coordinator is never written.
C18_ConcurrentCallsIsolated ==
    /\ root.txn = NoTx /\ root.backend = cfg.backend
    /\ \A p \in Procs :
         /\ gor[p].mode # "ambient"
         /\ Len(gor[p].acted) <= 1
         /\ \A i \in 1..Len(gor[p].acted) : gor[p].acted[i].tx = gor[p].tx
         /\ Entered(p) =>
              /\ gor[p].tx # NoTx
              /\ gor[p].fnTx = gor[p].tx
              /\ gor[p].fnTxn = gor[p].tx
              /\ gor[p].fnBound.id = gor[p].tx.id
              /\ \A q \in Procs \ {p} :
                   /\ gor[q].tx # gor[p].tx
                   /\ gor[q].fnTx # gor[p].tx /\ gor[q].fnTxn # gor[p].tx
                   /\ gor[q].fnBound.id # gor[p].tx.id
                   /\ \A i \in 1..Len(gor[q].acted) : gor[q].acted[i].tx # gor[p].tx

C18_Witness ==
    /\ gor[1].pc = "done" /\ gor[2].pc = "fn"
    /\ gor[1].tx.id = 2 /\ gor[2].tx.id = 1
    /\ gor[1].acted = <<[op |-> "Commit", tx |-> gor[1].tx]>>
    /\ gor[2].fnTx = gor[2].tx /\ root.txn = NoTx

\* C19 (as claimed): when the context is done before the native commit completes, Commit
\* issues a native rollback and returns the context's error, without waiting
\* for the native commit; when the native commit completes first, Commit
\* returns the native commit's result and issues no rollback.
C19_FirstEventDecides ==
    race.pc = "returned" =>
        /\ race.first = "ctx" => race.ret = Returned(race.ctxErr) /\ race.rollbacks = 1
        /\ race.first = "commit" => race.ret = Returned(race.nativeRes) /\ race.rollbacks = 0

\* C19 (amended): the select decides on what is ready when it chooses.  When
\* only the context is done, Commit issues one native rollback, ignores its
\* error and returns the context's error without waiting for the native
\* commit; when only the native commit's result is in the channel, Commit
\* returns that result and issues no rollback; when both are ready, either of
\* the two happens.  A Commit call waiting in the select returns once the
\* context is done, the native commit completing or not.
C19_SelectDecides ==
    /\ [](race.pc # "returned" => race.ret = NoResult /\ race.rollbacks = 0)
    /\ [](race.pc = "returned" =>
            LET ctxOutcome == race.ret = Returned(race.ctxErr) /\ race.rollbacks = 1
                commitOutcome == /\ race.ret = Returned(race.nativeRes) /\ race.rollbacks = 0
                                 /\ race.native = "sent"
            IN  /\ race.ready # {}
                /\ race.ready = {"ctx"} => ctxOutcome
                /\ race.ready = {"done"} => commitOutcome
                /\ race.ready = {"ctx", "done"} => ctxOutcome \/ commitOutcome)
    /\ ((race.pc = "select" /\ race.ctxDone) ~> (race.pc = "returned"))

C19_Witness ==
    /\ race.pc = "returned" /\ race.ready = {"ctx"} /\ race.native = "running"
    /\ race.ret = Returned(DeadlineExceeded) /\ race.rollbacks = 1
    /\ race.rbRes # Nil

\* C20: in both backends, when the work function has returned nil and Commit
\* fails because the context's deadline is exceeded, the error the outermost
\* BeginTxFunc returns carries the transaction-timeout tag.
C20_CommitDeadlineTagged ==
    (/\ Done /\ RootChain /\ OuterFnOut = Returned(Nil)
     /\ \E i \in 1..Len(Chain(TxErr("Commit"))) : Chain(TxErr("Commit"))[i] = DeadlineExceeded)
    => /\ result.kind = "return"
       /\ \E i \in 1..Len(Chain(result.val)) : Chain(result.val)[i].k = "tag"

\* The coordinator's Timeout in whole milliseconds, as Go's integer division
\* gives it.
RootTimeoutMS ==
    IF root.Timeout >= 0 THEN root.Timeout \div 1000 ELSE -((-root.Timeout) \div 1000)

\* The events of the outermost call, in the order they happened.
RootEvents(ops) == {i \in 1..Len(log) : log[i].op \in ops /\ log[i].depth = 1}

\* C21: a pgx root BeginTxFunc issues on the transaction it has just begun
\* first the transaction_timeout directive and then the
\* idle_in_transaction_session_timeout directive, both with the coordinator's
\* Timeout in milliseconds, before the binder and the work function are
\* invoked; when BeginTx or a directive fails neither of the two is invoked.
C21_PGXDirectivesBeforeWork ==
    (RootChain /\ root.backend = "pgx") =>
        LET execs == RootEvents({"Exec"})
            begins == RootEvents({"BeginTx"})
            body == RootEvents({"binder", "fn", "Do"})
            Nth(k) == CHOOSE i \in execs : Cardinality({j \in execs : j < i}) = k - 1
        IN  /\ Cardinality(execs) <= 2 /\ Cardinality(begins) <= 1
            /\ \A i \in execs :
                 /\ \E b \in begins : b < i /\ log[b].err = Nil
                 /\ log[i].tx = [type |-> "pgx.Tx", id |-> 1]
                 /\ log[i].ms = RootTimeoutMS
                 /\ \A j \in execs : j < i => log[j].err = Nil
            /\ Cardinality(execs) >= 1 =>
                 log[Nth(1)].stmt = "SET LOCAL transaction_timeout"
            /\ Cardinality(execs) = 2 =>
                 log[Nth(2)].stmt = "SET LOCAL idle_in_transaction_session_timeout"
            /\ \A j \in body :
                 /\ Cardinality({i \in execs : i < j /\ log[i].err = Nil}) = 2
                 /\ \A i \in execs : i < j
            /\ (\E i \in begins \cup execs : log[i].err # Nil) => body = {}

C21_Witness ==
    /\ Done /\ RootChain /\ root.backend = "pgx" /\ root.Timeout = 50 * Millisecond
    /\ commits[1] = 1
    /\ Cardinality({i \in RootEvents({"Exec"}) : log[i].ms = 50}) = 2

\* C22: a sqlite coordinator constructed with Timeout unset has the ten
\* second default, and every root BeginTxFunc on it issues PRAGMA busy_timeout
\* with a value of at most 10000 ms on the transaction it has just begun,
\* before the binder and the work function run; when the directive fails the
\* work function is not invoked.
C22_SQLiteDefaultBusyTimeout ==
    (cfg.backend = "sqlite" /\ cfg.Timeout = 0) =>
        /\ root.Timeout = 10 * Second
        /\ RootChain =>
             LET execs == RootEvents({"Exec"})
                 begins == RootEvents({"BeginTx"})
                 body == RootEvents({"binder", "fn", "Do"})
             IN  /\ Cardinality(execs) <= 1
                 /\ \A i \in execs :
                      /\ \E b \in begins : b < i /\ log[b].err = Nil
                      /\ log[i].stmt = "PRAGMA busy_timeout"
                      /\ log[i].ms > 0 /\ log[i].ms <= 10000
                      /\ log[i].tx = [type |-> "*tx.SQLTxWrapper", id |-> 1]
                 /\ \A j \in body : \E i \in execs : i < j /\ log[i].err = Nil
                 /\ (\E i \in begins \cup execs : log[i].err # Nil) => body = {}

C22_Witness ==
    /\ Done /\ RootChain /\ cfg = [backend |-> "sqlite", Timeout |-> 0]
    /\ commits[1] = 1
    /\ \E i \in RootEvents({"Exec"}) : log[i].ms = 10000 /\ log[i].err = Nil

\* C23: on every sqlite coordinator a root BeginTxFunc runs BeginTx, the
\* directive, the work function and Commit or Rollback under one context
\* derived from the caller's with the coordinator's Timeout, a positive
\* duration of at most ten seconds, as its deadline; nested calls hand that
\* same context on, and the derived context is cancelled when the root call
\* ends.
C23_OneDeadlineForWholeBody ==
    (RootChain /\ root.backend = "sqlite") =>
        /\ \A i \in 1..Len(log) :
             log[i].op \in {"BeginTx", "Exec", "fn", "Commit", "Rollback"} =>
                /\ log[i].ctx.deadlines = <<root.Timeout>>
                /\ root.Timeout > 0 /\ root.Timeout <= 10 * Second
        /\ \A i \in RootEvents({"ret"}) : log[i].cancel

\* The backends' timeout and lock errors.
BackendTimeoutErrs ==
    {[k |-> "pg", code |-> "25P03"], [k |-> "pg", code |-> "25P04"],
     [k |-> "sqlite", code |-> "SQLITE_BUSY"], [k |-> "sqlite", code |-> "SQLITE_LOCKED"]}

\* C24: when BeginTx, a session directive, the work function, Rollback or
\* Commit of a root BeginTxFunc fails with a backend timeout or lock error,
\* the error BeginTxFunc returns carries the transaction-timeout tag, on the
\* pgx coordinator as on the sqlite one.
C24_TimeoutTaggedAtEveryStep ==
    (/\ Done /\ RootChain /\ result.kind = "return"
     /\ \/ \E i \in RootEvents({"BeginTx", "Exec", "Commit", "Rollback"}) :
             log[i].err \in BackendTimeoutErrs
        \/ OuterFnOut.kind = "return" /\ OuterFnOut.val \in BackendTimeoutErrs)
    => \E i \in 1..Len(Chain(result.val)) : Chain(result.val)[i].k = "tag"

\* C25: the goroutine Commit starts never blocks on delivering its result:
\* once the native commit has returned the channel has room for the one value
\* sent, so the send completes and the goroutine ends, whether the caller is
\* still in the select or has left on the context-done branch.
C25_CommitGoroutineEnds ==
    /\ [](race.native = "returned" => race.done = <<>>)
    /\ [](Len(race.done) <= 1)
    /\ ((race.native = "returned") ~> (race.native = "sent"))

C25_Witness ==
    /\ race.pc = "returned" /\ race.ready = {"ctx"} /\ race.ret = Returned(race.ctxErr)
    /\ race.native = "sent" /\ race.done = <<race.nativeRes>>

\* C26: the adapter's Commit, and so a sqlite root BeginTxFunc whose work
\* function returned nil, returns nil exactly when the native transaction is
\* committed: in every interleaving of the native commit with the context, a
\* Commit that returned an error leaves the transaction uncommitted.
C26_NilIffCommitted ==
    race.pc = "returned" =>
        /\ race.ret = Returned(Nil) => race.native = "sent" /\ race.nativeRes = Nil
        /\ (race.native \in {"returned", "sent"} /\ race.nativeRes = Nil) =>
              race.ret = Returned(Nil)

\* C27: Do never invokes Rollback on the handle after it has invoked Commit
\* on it and never invokes Rollback twice, also when Commit or Rollback panic
\* instead of returning.
C27_NoRollbackAfterCommitNorTwice ==
    LET idx(op) == {i \in 1..Len(dox.calls) : dox.calls[i].op = op}
    IN  /\ \A i \in idx("Commit"), j \in idx("Rollback") : j < i
        /\ Cardinality(idx("Rollback")) <= 1

\* The binder of the outermost call was invoked and panicked: no work
\* function followed it and the call ended by a panic.
RootBinderPanicked ==
    /\ RootChain /\ Done /\ result.kind = "panic"
    /\ RootEvents({"binder"}) # {}
    /\ RootEvents({"fn"}) = {}

\* C28: when the binder panics during a root BeginTxFunc, the transaction
\* that was just begun is rolled back before the panic leaves BeginTxFunc, in
\* the sqlite coordinator as in the pgx coordinator.
C28_BinderPanicRollsBack ==
    RootBinderPanicked => (rollbacks[1] = 1 /\ commits[1] = 0)

\* C29: no work function is invoked with a handle whose transaction has
\* already been committed or rolled back, and InTx() of the coordinator used
\* is true only while its transaction is unresolved, also for a
\* transaction-bound copy used after the BeginTxFunc that made it returned.
C29_NoWorkOnResolvedHandle ==
    \A i \in 1..Len(kept.invoked) :
        /\ kept.invoked[i].state = "open"
        /\ kept.invoked[i].inTx => kept.invoked[i].state = "open"

\* C30: for every effective timeout in (0, 10s], values below one
\* millisecond included, the millisecond value written into the directives
\* (transaction_timeout, idle_in_transaction_session_timeout, busy_timeout) is
\* at least 1 and at most 10000, and does not exceed the timeout rounded up
\* to a millisecond.
C30_DirectiveMillisecondsPositive ==
    (RootChain /\ root.Timeout > 0 /\ root.Timeout <= 10 * Second) =>
        \A i \in RootEvents({"Exec"}) :
            /\ log[i].ms >= 1
            /\ log[i].ms <= 10000
            /\ (log[i].ms - 1) * Millisecond < root.Timeout

====
